---- MODULE Spec2Model ----
(***************************************************************************)
(* Prime-field arithmetic (src/src/fft/prime_field_element.rs) and the     *)
(* number-theoretic transform built on it (src/src/fft.rs).                *)
(*                                                                         *)
(* Two state machines share this module:                                   *)
(*   Spec     a caller that builds field elements with new and applies     *)
(*            add, sub, mul, div, rem, inv, mod_pow and legendre_symbol;   *)
(*   SpecNtt  the call stack of ntt_fft / intt_fft, one frame per          *)
(*            activation, driven the way the test                          *)
(*            finite_field_fft_four_elements drives it.                    *)
(*                                                                         *)
(* Values are i128 in the source.  Every modulus and operand enumerated    *)
(* here is far below 2^31, so no intermediate product or sum leaves the    *)
(* i128 range and plain integers are exact.                                *)
(***************************************************************************)
EXTENDS Integers, Sequences, FiniteSets, TLC

VARIABLES
    x, y,          \* the caller's two element bindings
    pc,            \* "ready": about to call; "called": an operation returned or panicked
    op,            \* the operation last called, "none" before any
    arg,           \* the integer argument of the call: new's value, mod_pow's exponent
    out,           \* what the last operation produced
    nq,            \* SpecNtt: the field modulus of the run
    input,         \* SpecNtt: the sequence handed to the first transform
    omega,         \* SpecNtt: the root handed to the transforms
    entry,         \* SpecNtt: which function the caller is in: "ntt_fft", "intt_fft"
    stack,         \* SpecNtt: activation records of ntt_fft, innermost last
    ret,           \* SpecNtt: the value an activation just returned, <<>>-wrapped
    output,        \* SpecNtt: what ntt_fft(input, omega) returned
    result,        \* SpecNtt: what intt_fft returned
    status,        \* SpecNtt: "running", "returned", "panic", "stack_overflow"
    depth          \* SpecNtt: deepest stack seen in the run

fieldVars == <<x, y, pc, op, arg, out>>
nttVars   == <<nq, input, omega, entry, stack, ret, output, result, status, depth>>
vars      == <<x, y, pc, op, arg, out,
               nq, input, omega, entry, stack, ret, output, result, status, depth>>

----------------------------------------------------------------------------
(* Bounds of the enumeration.                                              *)

\* new is called with every integer in -MaxV..MaxV
MaxV == 5
\* mod_pow is called with every exponent in -MaxNegExp..MaxExp
MaxExp == 6
MaxNegExp == 2

\* the transforms are called with sequences of every length 0..MaxLen:
\* every sequence over the field up to length FullLen, and the sequences
\* c, c+d, c+2d, ... of the longer lengths
MaxLen == 12
FullLen == 4
\* activations of ntt_fft the thread's stack holds before it overflows
MaxDepth == 6

\* the moduli a PrimeField is created with: primes, and composites for the
\* operations the source does not restrict to primes
Moduli == {2, 3, 4, 5, 7, 9, 19}
\* the moduli of the fields the transforms run over
NttModuli == {3, 5}

----------------------------------------------------------------------------
(* Rust integer semantics: / truncates toward zero, % takes the sign of    *)
(* the dividend.  TLA+ \div floors and % is non-negative, so both are      *)
(* rebuilt from magnitudes.                                                *)

Abs(n) == IF n < 0 THEN -n ELSE n

RustDiv(a, b) ==
    IF (a < 0) = (b < 0) THEN Abs(a) \div Abs(b) ELSE -(Abs(a) \div Abs(b))

RustRem(a, b) == a - b * RustDiv(a, b)

----------------------------------------------------------------------------
(* PrimeFieldElement                                                       *)

Elem(v, q) == [q |-> q, value |-> v]

\* new with the remainder left as Rust's % gives it (no + q)
new_unsigned_only(value, q) == Elem(RustRem(value, q), q)

\* PrimeFieldElement::new
new(value, q) == Elem(RustRem(RustRem(value, q) + q, q), q)

\* a same_field_check that never panics
same_field_check_never(self, other) == TRUE

\* same_field_check: TRUE when the check passes, FALSE when it panics
same_field_check(self, other) == self.q = other.q

\* impl Add
add(self, other) == Elem(RustRem(self.value + other.value, self.q), self.q)

\* sub with the remainder left as Rust's % gives it (no + q)
sub_signed_remainder(self, other) ==
    Elem(RustRem(self.value - other.value, self.q), self.q)

\* impl Sub
sub(self, other) ==
    Elem(RustRem(RustRem(self.value - other.value, self.q) + self.q, self.q), self.q)

\* impl Mul
mul(self, other) == Elem(RustRem(self.value * other.value, self.q), self.q)

\* impl Rem
rem(self, other) == Elem(0, self.q)

\* the while loop of egcd, one iteration per unfolding
RECURSIVE egcd_loop(_, _, _, _, _, _)
egcd_loop(ex, ey, a0, a1, b0, b1) ==
    IF ey = 0
    THEN [g |-> ex, s |-> a0, t |-> b0]
    ELSE LET q == RustDiv(ex, ey)
             r == RustRem(ex, ey)
             c == a0 - q * a1
             d == b0 - q * b1
         IN  egcd_loop(ey, r, a1, c, b1, d)

\* egcd with the coefficient pairs started the other way round
egcd_swapped_start(ex, ey) == egcd_loop(ex, ey, 0, 1, 1, 0)

\* PrimeFieldElement::egcd
egcd(ex, ey) == egcd_loop(ex, ey, 1, 0, 0, 1)

\* inv taking the coefficient of q instead of the coefficient of the value
inv_first_coefficient(self) ==
    LET a == egcd(self.q, self.value).s
    IN  Elem(RustRem(RustRem(a, self.q) + self.q, self.q), self.q)

\* PrimeFieldElement::inv
inv(self) ==
    LET a == egcd(self.q, self.value).t
    IN  Elem(RustRem(RustRem(a, self.q) + self.q, self.q), self.q)

\* impl Div
div(self, other) == Elem(RustRem(inv(other).value * self.value, self.q), self.q)

\* the width of the exponent: for i in 0..128
ExpBits == 128

\* pow & (1 << k) != 0 on a two's-complement i128.  Exponents enumerated here
\* lie in -2^31..2^31-1, so bits 31..127 all equal the sign bit; below that,
\* flooring division is the arithmetic shift.
BitSet(pow, k) ==
    IF k >= 31 THEN pow < 0 ELSE (pow \div (2 ^ k)) % 2 = 1

\* an iteration that forgets to square the accumulator
mod_pow_step_no_square(acc, res, pow, i) ==
    IF BitSet(pow, ExpBits - 1 - i) THEN mul(acc, res) ELSE acc

\* one iteration of the for loop of mod_pow: square, then multiply if bit set
mod_pow_step(acc, res, pow, i) ==
    LET sq  == mul(acc, acc)
        set == BitSet(pow, ExpBits - 1 - i)
    IN  IF set THEN mul(sq, res) ELSE sq

\* iterations lo..hi-1 of the for loop, in order, starting from acc.  The
\* range is halved, and the first half's accumulator is inspected before the
\* second half starts, only to keep the evaluation shallow; the iterations
\* run in the loop's order and the test on first.q never fails (mul keeps q).
RECURSIVE mod_pow_loop(_, _, _, _, _)
mod_pow_loop(acc, res, pow, lo, hi) ==
    IF hi <= lo THEN acc
    ELSE IF hi = lo + 1 THEN mod_pow_step(acc, res, pow, lo)
    ELSE LET mid   == (lo + hi) \div 2
             first == mod_pow_loop(acc, res, pow, lo, mid)
         IN  IF first.q = res.q
             THEN mod_pow_loop(first, res, pow, mid, hi)
             ELSE first

\* PrimeFieldElement::mod_pow
mod_pow(self, pow) == mod_pow_loop(Elem(1, self.q), self, pow, 0, ExpBits)

\* legendre_symbol raising to q - 1 instead of (q - 1) / 2
legendre_symbol_full_exponent(self) == mod_pow(self, self.q - 1).value

\* PrimeFieldElement::legendre_symbol
legendre_symbol(self) == mod_pow(self, RustDiv(self.q - 1, 2)).value

----------------------------------------------------------------------------
(* The caller of the field operations.                                     *)

NoOut          == [q |-> 0, value |-> 0, kind |-> "none"]
ElemOut(e)     == [q |-> e.q, value |-> e.value, kind |-> "elem"]
IntOut(n)      == [q |-> 0, value |-> n, kind |-> "int"]
\* panic!("Operation {} is only defined for elements in the same field...")
PanicOut       == [q |-> 0, value |-> 0, kind |-> "panic"]

NewValues == -MaxV .. MaxV
Exponents == -MaxNegExp .. MaxExp
NewElems  == {new(v, q) : v \in NewValues, q \in Moduli}

FieldInit ==
    /\ x \in NewElems
    /\ y \in NewElems
    /\ pc = "ready"
    /\ op = "none"
    /\ arg = 0
    /\ out = NoOut

\* a call returns (or panics): the caller is now holding its outcome
Called(name, n, o) ==
    /\ pc = "ready"
    /\ pc' = "called"
    /\ op' = name
    /\ arg' = n
    /\ out' = o
    /\ UNCHANGED <<x, y>>
    /\ UNCHANGED nttVars

\* a binary operator: same_field_check first, then the value
Binary(name, value) ==
    Called(name, 0, IF same_field_check(x, y) THEN ElemOut(value) ELSE PanicOut)

New    == \E v \in NewValues, q \in Moduli : Called("new", v, ElemOut(new(v, q)))
Add    == Binary("add", add(x, y))
Sub    == Binary("sub", sub(x, y))
Mul    == Binary("mul", mul(x, y))
Div    == Binary("div", div(x, y))
Rem    == Binary("rem", rem(x, y))
Inv    == Called("inv", 0, ElemOut(inv(x)))
ModPow == \E e \in Exponents : Called("mod_pow", e, ElemOut(mod_pow(x, e)))
Legendre == Called("legendre_symbol", 0, IntOut(legendre_symbol(x)))

\* let x = <the element returned>
BindX ==
    /\ pc = "called" /\ out.kind = "elem"
    /\ x' = Elem(out.value, out.q)
    /\ pc' = "ready"
    /\ op' = "none" /\ arg' = 0 /\ out' = NoOut
    /\ UNCHANGED y
    /\ UNCHANGED nttVars

\* let y = <the element returned>
BindY ==
    /\ pc = "called" /\ out.kind = "elem"
    /\ y' = Elem(out.value, out.q)
    /\ pc' = "ready"
    /\ op' = "none" /\ arg' = 0 /\ out' = NoOut
    /\ UNCHANGED x
    /\ UNCHANGED nttVars

\* the returned value is used no further; a panic ends the caller instead
Discard ==
    /\ pc = "called" /\ out.kind # "panic"
    /\ pc' = "ready"
    /\ op' = "none" /\ arg' = 0 /\ out' = NoOut
    /\ UNCHANGED <<x, y>>
    /\ UNCHANGED nttVars

----------------------------------------------------------------------------
(* ntt_fft / intt_fft (src/src/fft.rs).  A Vec is a sequence of elements;  *)
(* a helper that can panic returns [ok, val].                              *)

Ok(v)  == [ok |-> TRUE, val |-> v]
Failed == [ok |-> FALSE, val |-> <<>>]

\* dft_finite_fields: y = [x[0] + x[1], x[0] + omega * x[1]]; each operator
\* runs same_field_check on its operands first
dft_finite_fields(vx, w) ==
    IF /\ same_field_check(vx[1], vx[2])
       /\ same_field_check(w, vx[2])
       /\ same_field_check(vx[1], mul(w, vx[2]))
    THEN Ok(<<add(vx[1], vx[2]), add(vx[1], mul(w, vx[2]))>>)
    ELSE Failed

\* split by parity: indices 0, 2, 4, ... of x (1, 3, 5, ... counted from 1)
x_even(vx) == [i \in 1 .. ((Len(vx) + 1) \div 2) |-> vx[2 * i - 1]]

\* split by parity: indices 1, 3, 5, ... of x (2, 4, 6, ... counted from 1)
x_odd(vx) == [i \in 1 .. (Len(vx) \div 2) |-> vx[2 * i]]

FieldElems(q) == {Elem(v, q) : v \in 0 .. (q - 1)}

Roots == UNION {FieldElems(q) : q \in NttModuli}

\* omega.mod_pow(j) for every root and every j the transforms ask for,
\* evaluated once
mod_pow_values ==
    [w \in Roots |-> [j \in 0 .. MaxLen |-> mod_pow(w, j)]]

\* factor_values[j] = omega.mod_pow(j) for j in 0..size
factor_values(w, size) == [j \in 1 .. size |-> mod_pow_values[w][j - 1]]

\* the hadamard products: res = even + odd * fst_half_factors ++
\* even + odd * snd_half_factors, where fst_half_factors[i] = factor_values[i]
\* and snd_half_factors[i] = factor_values[size/2 + i]
hadamard(even, odd, w, size) ==
    LET half == size \div 2
        src(i) == IF i <= half THEN i ELSE i - half
        f == factor_values(w, size)
    IN  IF \A i \in 1 .. size :
              /\ same_field_check(odd[src(i)], f[i])
              /\ same_field_check(even[src(i)], mul(odd[src(i)], f[i]))
        THEN Ok([i \in 1 .. size |-> add(even[src(i)], mul(odd[src(i)], f[i]))])
        ELSE Failed

\* intt_fft: length = PrimeFieldElement::new(x.len(), omega.field)
intt_length(vx, w) == new(Len(vx), w.q)

\* intt_fft: res_scaled.map(|x| x / length)
intt_unscale(res_scaled, length) ==
    IF \A i \in 1 .. Len(res_scaled) : same_field_check(res_scaled[i], length)
    THEN Ok([i \in 1 .. Len(res_scaled) |-> div(res_scaled[i], length)])
    ELSE Failed

\* an activation of ntt_fft: its arguments, where it stands, and the value
\* of `even` once the first recursive call has returned
Frame(vx, w) == [x |-> vx, omega |-> w, even |-> <<>>, at |-> "entry"]

ShortInputs(q) == UNION {[1 .. n -> FieldElems(q)] : n \in 0 .. FullLen}

LongInputs(q) ==
    {[i \in 1 .. n |-> new(c + d * (i - 1), q)] :
        n \in (FullLen + 1) .. MaxLen, c \in 0 .. (q - 1), d \in 0 .. (q - 1)}

Inputs(q) == ShortInputs(q) \cup LongInputs(q)

NttIdle ==
    /\ nq = 0
    /\ input = <<>>
    /\ omega = Elem(0, 0)
    /\ entry = <<>>
    /\ stack = <<>>
    /\ ret = <<>>
    /\ output = <<>>
    /\ result = <<>>
    /\ status = "idle"
    /\ depth = 0

FieldIdle ==
    /\ x = Elem(0, 0)
    /\ y = Elem(0, 0)
    /\ pc = "idle"
    /\ op = "none"
    /\ arg = 0
    /\ out = NoOut

NttInit ==
    /\ nq \in NttModuli
    /\ input \in Inputs(nq)
    /\ omega \in Roots
    /\ entry = <<>>
    /\ stack = <<>>
    /\ ret = <<>>
    /\ output = <<>>
    /\ result = <<>>
    /\ status = "start"
    /\ depth = 0

Top == stack[Len(stack)]
Pop == SubSeq(stack, 1, Len(stack) - 1)
Max(a, b) == IF a >= b THEN a ELSE b

\* the caller enters fn `name` and ntt_fft(vx, w) is activated
Enter(name, vx, w) ==
    /\ entry' = Append(entry, name)
    /\ stack' = <<Frame(vx, w)>>
    /\ depth' = Max(depth, 1)
    /\ status' = "running"
    /\ UNCHANGED <<nq, input, omega, ret, output, result>>
    /\ UNCHANGED fieldVars

\* let output = ntt_fft(input.clone(), &generator)
CallNttFft ==
    /\ status = "start"
    /\ Enter("ntt_fft", input, omega)

\* intt_fft(input, &generator): the inner call is ntt_fft(x, &omega.inv())
CallInttFft ==
    /\ status = "start"
    /\ Enter("intt_fft", input, inv(omega))

\* let result = intt_fft(output, &generator)
CallInttFftOnOutput ==
    /\ status = "returned" /\ entry = <<"ntt_fft">>
    /\ Enter("intt_fft", output, inv(omega))

Running == status = "running" /\ stack # <<>>

\* if size % 2 == 1 { panic!("size of input must be a power of 2") }
NttPanicSize ==
    /\ Running /\ Top.at = "entry" /\ ret = <<>>
    /\ Len(Top.x) % 2 = 1
    /\ status' = "panic_size"
    /\ stack' = <<>>
    /\ UNCHANGED <<nq, input, omega, entry, ret, output, result, depth>>
    /\ UNCHANGED fieldVars

\* else if size == 2 { dft_finite_fields(&x, omega) }
NttBase ==
    /\ Running /\ Top.at = "entry" /\ ret = <<>>
    /\ Len(Top.x) = 2
    /\ LET r == dft_finite_fields(Top.x, Top.omega)
       IN  IF r.ok
           THEN /\ ret' = <<r.val>>
                /\ stack' = Pop
                /\ status' = status
           ELSE /\ ret' = <<>>
                /\ stack' = <<>>
                /\ status' = "panic_field"
    /\ UNCHANGED <<nq, input, omega, entry, output, result, depth>>
    /\ UNCHANGED fieldVars

\* else { split by parity; ntt_fft(x_even, omega) is called first }
NttSplit ==
    /\ Running /\ Top.at = "entry" /\ ret = <<>>
    /\ Len(Top.x) % 2 # 1 /\ Len(Top.x) # 2
    /\ Len(stack) < MaxDepth
    /\ stack' = Append([stack EXCEPT ![Len(stack)].at = "even"],
                       Frame(x_even(Top.x), Top.omega))
    /\ depth' = Max(depth, Len(stack) + 1)
    /\ UNCHANGED <<nq, input, omega, entry, ret, output, result, status>>
    /\ UNCHANGED fieldVars

\* the same call with no stack left for another activation: the thread's
\* guard page is hit and the process aborts
NttStackOverflow ==
    /\ Running /\ Top.at = "entry" /\ ret = <<>>
    /\ Len(Top.x) % 2 # 1 /\ Len(Top.x) # 2
    /\ Len(stack) >= MaxDepth
    /\ status' = "stack_overflow"
    /\ stack' = <<>>
    /\ UNCHANGED <<nq, input, omega, entry, ret, output, result, depth>>
    /\ UNCHANGED fieldVars

\* ntt_fft(x_even, omega) returned: ntt_fft(x_odd, omega) is called
NttEvenReturned ==
    /\ Running /\ Top.at = "even" /\ ret # <<>>
    /\ stack' = Append([stack EXCEPT ![Len(stack)].at = "odd",
                                     ![Len(stack)].even = ret[1]],
                       Frame(x_odd(Top.x), Top.omega))
    /\ ret' = <<>>
    /\ depth' = Max(depth, Len(stack) + 1)
    /\ UNCHANGED <<nq, input, omega, entry, output, result, status>>
    /\ UNCHANGED fieldVars

\* ntt_fft(x_odd, omega) returned: twiddle factors, hadamard products, res
NttOddReturned ==
    /\ Running /\ Top.at = "odd" /\ ret # <<>>
    /\ LET r == hadamard(Top.even, ret[1], Top.omega, Len(Top.x))
       IN  IF r.ok
           THEN /\ ret' = <<r.val>>
                /\ stack' = Pop
                /\ status' = status
           ELSE /\ ret' = <<>>
                /\ stack' = <<>>
                /\ status' = "panic_field"
    /\ UNCHANGED <<nq, input, omega, entry, output, result, depth>>
    /\ UNCHANGED fieldVars

\* the outermost ntt_fft returned to the test: let output = ...
NttReturned ==
    /\ status = "running" /\ stack = <<>> /\ ret # <<>>
    /\ entry[Len(entry)] = "ntt_fft"
    /\ output' = ret[1]
    /\ ret' = <<>>
    /\ status' = "returned"
    /\ UNCHANGED <<nq, input, omega, entry, stack, result, depth>>
    /\ UNCHANGED fieldVars

\* the outermost ntt_fft returned to intt_fft: divide by length, return
InttReturned ==
    /\ status = "running" /\ stack = <<>> /\ ret # <<>>
    /\ entry[Len(entry)] = "intt_fft"
    /\ LET vx == IF Len(entry) = 2 THEN output ELSE input
           r  == intt_unscale(ret[1], intt_length(vx, omega))
       IN  IF r.ok
           THEN result' = r.val /\ status' = "returned"
           ELSE result' = <<>> /\ status' = "panic_field"
    /\ ret' = <<>>
    /\ UNCHANGED <<nq, input, omega, entry, stack, output, depth>>
    /\ UNCHANGED fieldVars

Init == FieldInit /\ NttIdle

Next ==
    \/ New \/ Add \/ Sub \/ Mul \/ Div \/ Rem \/ Inv \/ ModPow \/ Legendre
    \/ BindX \/ BindY \/ Discard

Spec == Init /\ [][Next]_vars

InitNtt == NttInit /\ FieldIdle

NextNtt ==
    \/ CallNttFft \/ CallInttFft \/ CallInttFftOnOutput
    \/ NttPanicSize \/ NttBase \/ NttSplit \/ NttStackOverflow
    \/ NttEvenReturned \/ NttOddReturned
    \/ NttReturned \/ InttReturned

SpecNtt == InitNtt /\ [][NextNtt]_vars

\* both callers: a run is either a run of the field operations or a run of
\* the transforms
InitAll == Init \/ InitNtt

NextAll == Next \/ NextNtt

SpecAll == InitAll /\ [][NextAll]_vars

----------------------------------------------------------------------------
(* Reference notions the properties are stated with.                       *)

IsPrime(n) == n > 1 /\ \A d \in 2 .. (n - 1) : n % d # 0

RECURSIVE Gcd(_, _)
Gcd(a, b) == IF b = 0 THEN a ELSE Gcd(b, a % b)

IsPowerOfTwo(n) == \E k \in 0 .. n : 2 ^ k = n

\* a multiplied by itself e times modulo q
RECURSIVE RepeatedMul(_, _, _)
RepeatedMul(a, e, q) == IF e = 0 THEN 1 % q ELSE (a * RepeatedMul(a, e - 1, q)) % q

\* w^n = 1 and no smaller positive power of w is 1
IsPrimitiveRoot(w, n, q) ==
    /\ RepeatedMul(w, n, q) = 1
    /\ \A k \in 1 .. (n - 1) : RepeatedMul(w, k, q) # 1

Values(vx) == [i \in 1 .. Len(vx) |-> vx[i].value]

----------------------------------------------------------------------------
(* Properties.                                                             *)

Invertible(e) == e.value # 0 /\ Gcd(e.value, e.q) = 1

\* a is a square of a nonzero element modulo q
IsResidue(a, q) == \E b \in 1 .. (q - 1) : (b * b) % q = a

Returned(name) == pc = "called" /\ op = name

\* the current call of a transform has ended, one way or another
Ended == status \notin {"idle", "start", "running"}

----------------------------------------------------------------------------
(* Properties.                                                             *)

\* the test's second call has returned: result = intt_fft(ntt_fft(input))
RoundTripDone ==
    status = "returned" /\ entry = <<"ntt_fft", "intt_fft">>

\* C1: for a prime modulus q, a power-of-two length n >= 2 that q does not
\* divide, a primitive n-th root omega and any x of n field elements,
\* intt_fft(ntt_fft(x, omega), omega) = x.
C1_RoundTrip ==
    (/\ RoundTripDone
     /\ IsPrime(nq) /\ omega.q = nq
     /\ Len(input) >= 2 /\ IsPowerOfTwo(Len(input))
     /\ Len(input) % nq # 0
     /\ IsPrimitiveRoot(omega.value, Len(input), nq))
    => result = input

\* C2: a / b and inv(b) fail with NotInvertible, returning no element,
\* whenever b is zero or shares a factor with q.
C2_NotInvertibleFails ==
    /\ (Returned("inv") /\ ~Invertible(x)) => out.kind = "not_invertible"
    /\ (Returned("div") /\ same_field_check(x, y) /\ ~Invertible(y))
           => out.kind = "not_invertible"

\* C3: ntt_fft and intt_fft called with a sequence whose length n >= 0 is
\* not a power of two end in the InvalidLength failure ("size of input must
\* be a power of 2") and return nothing.
C3_InvalidLength ==
    (Len(entry) = 1 /\ Ended /\ ~IsPowerOfTwo(Len(input)))
    => status = "panic_size"

\* C4: ntt_fft called with a sequence of power-of-two length n (1, 2, 4, 8)
\* and an omega of the entries' field returns n elements of that field.
C4_PowerOfTwoCompletes ==
    (/\ entry = <<"ntt_fft">> /\ Ended
     /\ IsPowerOfTwo(Len(input)) /\ omega.q = nq)
    => /\ status = "returned"
       /\ Len(output) = Len(input)
       /\ \A i \in 1 .. Len(output) : output[i] \in FieldElems(nq)

\* C5: mod_pow with a negative exponent fails with InvalidExponent and
\* returns no element.
C5_NegativeExponentFails ==
    (Returned("mod_pow") /\ arg < 0) => out.kind = "invalid_exponent"

\* C6: for q > 1, any a (0 included) and e >= 0, mod_pow(a, e) is a
\* multiplied by itself e times modulo q; mod_pow(a, 0) is 1.
C6_ModPow ==
    (Returned("mod_pow") /\ arg >= 0 /\ x.q > 1)
    => /\ out = ElemOut(Elem(RepeatedMul(x.value, arg, x.q), x.q))
       /\ (arg = 0 => out.value = 1)

C6_Witness ==
    /\ Returned("mod_pow") /\ x = Elem(3, 19) /\ arg = 5 /\ out.value = 15

\* C7: for a prime q and 1 <= a <= q-1, inv(a) lies in [0, q) and
\* a * inv(a) = 1 modulo q (inv(3) = 13 mod 19, inv(2) = 12 mod 23); the
\* (g, s, t) of egcd(q, a) satisfies s*q + t*a = g = gcd(q, a).
C7_Inverse ==
    /\ (Returned("inv") /\ IsPrime(x.q) /\ x.value \in 1 .. (x.q - 1))
       => /\ out.kind = "elem" /\ out.q = x.q
          /\ out.value \in 0 .. (x.q - 1)
          /\ (x.value * out.value) % x.q = 1
          /\ mul(x, Elem(out.value, out.q)) = Elem(1, x.q)
          /\ LET r == egcd(x.q, x.value)
             IN  /\ r.s * x.q + r.t * x.value = r.g
                 /\ r.g = Gcd(x.q, x.value)
          /\ (x = Elem(3, 19) => out.value = 13)
    /\ inv(Elem(2, 23)) = Elem(12, 23)

C7_Witness ==
    /\ Returned("inv") /\ x = Elem(3, 19) /\ out.value = 13

\* C8: for q > 1 and a # 0 with gcd(a, q) = 1, inv(inv(a)) = a: inverting
\* the element inv returned gives back the element inv was called on.
C8_InverseInvolution ==
    (Returned("inv") /\ x.q > 1 /\ Invertible(x))
    => /\ out.kind = "elem"
       /\ inv(Elem(out.value, out.q)) = x

C8_Witness ==
    /\ Returned("inv") /\ x = Elem(2, 9) /\ out.value = 5
    /\ inv(Elem(5, 9)) = Elem(2, 9)

\* C9: for a prime q and a in [0, q), legendre_symbol(a) is 0, 1 or q-1;
\* for odd q it is 0 exactly for a = 0, 1 exactly for a nonzero quadratic
\* residue and q-1 exactly for a non-residue.
C9_Legendre ==
    (Returned("legendre_symbol") /\ IsPrime(x.q) /\ x.value \in 0 .. (x.q - 1))
    => /\ out.kind = "int"
       /\ out.value \in {0, 1, x.q - 1}
       /\ (x.q % 2 = 1 =>
             /\ (out.value = 0 <=> x.value = 0)
             /\ (out.value = 1 <=> (x.value # 0 /\ IsResidue(x.value, x.q)))
             /\ (out.value = x.q - 1 <=> (x.value # 0 /\ ~IsResidue(x.value, x.q))))

C9_Witness ==
    /\ Returned("legendre_symbol") /\ x = Elem(2, 19) /\ out.value = 18

\* C10: for q > 1, new(v, field) has its residue in [0, q) and congruent
\* to v, negative v included, and every element the caller holds or gets
\* back from add, sub, mul, div, inv, mod_pow and rem has its residue in
\* [0, q).
C10_ResidueInRange ==
    /\ x.value \in 0 .. (x.q - 1)
    /\ y.value \in 0 .. (y.q - 1)
    /\ (out.kind = "elem" => out.value \in 0 .. (out.q - 1))
    /\ (Returned("new") => (out.kind = "elem" /\ (out.value - arg) % out.q = 0))

\* a subtraction below zero, on operands that only earlier operations
\* produce (new is called with |v| <= MaxV)
C10_Witness ==
    /\ Returned("sub") /\ x = Elem(8, 19) /\ y = Elem(11, 19) /\ out.value = 16

\* C11: add, sub, mul and div on two elements of fields with different
\* moduli fail with the field-mismatch panic and produce no element; so
\* ntt_fft called with an omega of another field than x's entries fails
\* instead of returning a sequence.
C11_FieldMismatchFails ==
    /\ (/\ pc = "called" /\ op \in {"add", "sub", "mul", "div"}
        /\ x.q # y.q)
       => out = PanicOut
    /\ (/\ entry = <<"ntt_fft">> /\ Ended
        /\ omega.q # nq)
       => /\ status \in {"panic_field", "panic_size", "stack_overflow"}
          /\ output = <<>>
    /\ (/\ entry = <<"ntt_fft">> /\ Ended
        /\ omega.q # nq /\ Len(input) >= 2 /\ IsPowerOfTwo(Len(input)))
       => status = "panic_field"

\* ntt_fft on four elements of the field of 5 with an omega of the field of
\* 3 has ended in the field-mismatch panic of the first size-2 transform
C11_Witness ==
    /\ entry = <<"ntt_fft">> /\ status = "panic_field"
    /\ nq = 5 /\ omega.q = 3 /\ Len(input) = 4 /\ depth = 2
    /\ output = <<>>

\* C12: for q > 1 and a, b of the same field with residues in [0, q): add
\* returns (a + b) mod q, sub returns (a - b) mod q made non-negative, mul
\* returns (a * b) mod q (13*5 = 8, 13+5 = 18, 13+13 = 7 modulo 19).
C12_AddSubMul ==
    (/\ pc = "called" /\ x.q = y.q /\ x.q > 1
     /\ x.value \in 0 .. (x.q - 1) /\ y.value \in 0 .. (y.q - 1))
    => /\ (op = "add" => out = ElemOut(Elem((x.value + y.value) % x.q, x.q)))
       /\ (op = "sub" =>
             /\ out = ElemOut(Elem((x.value - y.value) % x.q, x.q))
             /\ out.value >= 0
             /\ (out.value + y.value) % x.q = x.value)
       /\ (op = "mul" => out = ElemOut(Elem((x.value * y.value) % x.q, x.q)))
       /\ ((op = "mul" /\ x = Elem(13, 19) /\ y = Elem(5, 19)) => out.value = 8)
       /\ ((op = "add" /\ x = Elem(13, 19) /\ y = Elem(5, 19)) => out.value = 18)
       /\ ((op = "add" /\ x = Elem(13, 19) /\ y = Elem(13, 19)) => out.value = 7)

C12_Witness ==
    /\ Returned("mul") /\ x = Elem(13, 19) /\ y = Elem(5, 19) /\ out.value = 8

\* the whole part of log2(n), n >= 1
RECURSIVE Log2Floor(_)
Log2Floor(n) == IF n <= 1 THEN 0 ELSE 1 + Log2Floor(n \div 2)

\* C13: every call of ntt_fft or intt_fft on a sequence of any length
\* n >= 0 ends in a return or a panic; the recursion never goes on without
\* end, each recursive call is given a strictly shorter sequence, and the
\* depth stays within about log2(n) activations.
C13_Termination ==
    /\ \A i \in 2 .. Len(stack) : Len(stack[i].x) < Len(stack[i - 1].x)
    /\ depth <= Log2Floor(Len(input)) + 1
    /\ status # "stack_overflow"

====
